---------------------------- MODULE Spec2Model ----------------------------
(***************************************************************************)
(* Model of the Spanner set-up scripts of this repository:                 *)
(*   src/spanner-connect.py  the stand-alone connectivity test             *)
(*   src/spanner-schema.py   connectivity test, database creation, DDL     *)
(*                           batches, table listing, sample operations     *)
(* A run is one execution of a script by one operating-system process.     *)
(* Every call of the Spanner client library is one step whose result the   *)
(* service decides: the value the database state gives, or an exception.   *)
(* The database (instance, database, catalog, rows, administrative         *)
(* operations in progress) is shared by all runs.                          *)
(***************************************************************************)
EXTENDS Integers, Sequences, FiniteSets, TLC

(***************************************************************************)
(* Bounds of the model.                                                    *)
(***************************************************************************)
\* Number of script executions one behaviour holds.
MaxRuns == 2

\* Largest chunk size tried by the specification that varies the chunk size.
MaxChunkSize == 12

(***************************************************************************)
(* Program constants.                                                      *)
(***************************************************************************)
\* chunk_size = 5 in setup_litellm_schema.
ChunkSize == 5

\* Operating-system processes that can execute a script.
Procs == {1, 2}

\* The process that runs the scripts when executions do not overlap.
FirstProc == CHOOSE p \in Procs : \A q \in Procs : p <= q

Min(a, b) == IF a <= b THEN a ELSE b

(***************************************************************************)
(* get_litellm_spanner_ddl: the eleven statements, in declaration order.   *)
(* A statement is kept as the object it creates: its kind, its name and,   *)
(* for an index, the table it is on.                                       *)
(***************************************************************************)
Table(n) == [kind |-> "TABLE", name |-> n, on |-> ""]

Index(n, t) == [kind |-> "INDEX", name |-> n, on |-> t]

\* The list with the first index moved up in front of its table.
ddl_index_first ==
    << Table("litellm_usertable"),
       Table("litellm_teamtable"),
       Table("litellm_proxymodeltable"),
       Index("idx_usage_user_id", "litellm_usagetable"),
       Table("litellm_usagetable"),
       Table("litellm_verificationtoken"),
       Index("idx_usage_team_id", "litellm_usagetable"),
       Index("idx_usage_model", "litellm_usagetable"),
       Index("idx_usage_created_at", "litellm_usagetable"),
       Index("idx_verification_user_id", "litellm_verificationtoken"),
       Index("idx_verification_team_id", "litellm_verificationtoken") >>

get_litellm_spanner_ddl ==
    << Table("litellm_usertable"),
       Table("litellm_teamtable"),
       Table("litellm_proxymodeltable"),
       Table("litellm_usagetable"),
       Table("litellm_verificationtoken"),
       Index("idx_usage_user_id", "litellm_usagetable"),
       Index("idx_usage_team_id", "litellm_usagetable"),
       Index("idx_usage_model", "litellm_usagetable"),
       Index("idx_usage_created_at", "litellm_usagetable"),
       Index("idx_verification_user_id", "litellm_verificationtoken"),
       Index("idx_verification_team_id", "litellm_verificationtoken") >>

\* range(0, len(ddl_statements), chunk_size): the next start after i.
NextStart(i, cs) == i + cs

\* A chunk that loses its last statement (slice end off by one).
ChunkShort(stmts, i, cs) == SubSeq(stmts, i + 1, Min(i + cs, Len(stmts)) - 1)

\* ddl_statements[i:i + chunk_size], i counted from 0 as in the source.
Chunk(stmts, i, cs) == SubSeq(stmts, i + 1, Min(i + cs, Len(stmts)))

\* i // chunk_size + 1, the batch number the script prints.
BatchNo(i, cs) == (i \div cs) + 1

(***************************************************************************)
(* The database service, as the scripts use it.                            *)
(***************************************************************************)
Names(cat) == {o.name : o \in cat}

TableNames(cat) == {o.name : o \in {x \in cat : x.kind = "TABLE"}}

\* Whether the service accepts a statement against a catalog: the name is
\* free, and an index names an existing table.
StmtValid(cat, s) ==
    /\ s.name \notin Names(cat)
    /\ s.kind = "INDEX" => s.on \in TableNames(cat)

\* The catalog after the first k statements of a chunk, applied in order.
RECURSIVE ApplyStmts(_, _, _)
ApplyStmts(cat, stmts, k) ==
    IF k = 0 THEN cat
    ELSE ApplyStmts(cat, stmts, k - 1) \cup {stmts[k]}

\* How many leading statements of a chunk the service can apply before one
\* is rejected (Len(stmts) when none is).
RECURSIVE ValidPrefix(_, _, _)
ValidPrefix(cat, stmts, k) ==
    IF k >= Len(stmts) THEN Len(stmts)
    ELSE IF StmtValid(ApplyStmts(cat, stmts, k), stmts[k + 1])
         THEN ValidPrefix(cat, stmts, k + 1)
         ELSE k

(***************************************************************************)
(* Table names as the characters the catalog query compares.               *)
(***************************************************************************)
Chars(n) ==
    IF n = "litellm_usertable" THEN << "l", "i", "t", "e", "l", "l", "m", "_", "u", "s", "e", "r", "t", "a", "b", "l", "e" >> ELSE
    IF n = "litellm_teamtable" THEN << "l", "i", "t", "e", "l", "l", "m", "_", "t", "e", "a", "m", "t", "a", "b", "l", "e" >> ELSE
    IF n = "litellm_proxymodeltable" THEN << "l", "i", "t", "e", "l", "l", "m", "_", "p", "r", "o", "x", "y", "m", "o", "d", "e", "l", "t", "a", "b", "l", "e" >> ELSE
    IF n = "litellm_usagetable" THEN << "l", "i", "t", "e", "l", "l", "m", "_", "u", "s", "a", "g", "e", "t", "a", "b", "l", "e" >> ELSE
    IF n = "litellm_verificationtoken" THEN << "l", "i", "t", "e", "l", "l", "m", "_", "v", "e", "r", "i", "f", "i", "c", "a", "t", "i", "o", "n", "t", "o", "k", "e", "n" >> ELSE
    IF n = "litellmx_audit" THEN << "l", "i", "t", "e", "l", "l", "m", "x", "_", "a", "u", "d", "i", "t" >> ELSE
    IF n = "app_settings" THEN << "a", "p", "p", "_", "s", "e", "t", "t", "i", "n", "g", "s" >> ELSE
    << >>

\* Characters in code-point order: '_' sorts before the lower-case letters.
Alphabet ==
    << "_", "a", "b", "c", "d", "e", "f", "g", "h", "i", "j", "k", "l", "m",
       "n", "o", "p", "q", "r", "s", "t", "u", "v", "w", "x", "y", "z" >>

Ord(c) == CHOOSE k \in 1..Len(Alphabet) : Alphabet[k] = c

\* a < b in the order ORDER BY table_name gives.
RECURSIVE LexLess(_, _)
LexLess(a, b) ==
    IF b = << >> THEN FALSE
    ELSE IF a = << >> THEN TRUE
    ELSE IF Head(a) = Head(b) THEN LexLess(Tail(a), Tail(b))
    ELSE Ord(Head(a)) < Ord(Head(b))

\* table_name LIKE 'litellm_%': in a LIKE pattern '_' stands for any one
\* character and '%' for any run of characters.
LikeLitellm(n) ==
    LET c == Chars(n)
    IN /\ Len(c) >= 8
       /\ SubSeq(c, 1, 7) = << "l", "i", "t", "e", "l", "l", "m" >>

\* t.startswith('litellm_') and STARTS_WITH(table_name, 'litellm_'): the
\* eight characters, the underscore among them, as they are.
StartsWithLitellm(n) ==
    LET c == Chars(n)
    IN /\ Len(c) >= 8
       /\ SubSeq(c, 1, 8) = << "l", "i", "t", "e", "l", "l", "m", "_" >>

\* The names of a set as a sequence, in ORDER BY table_name order.
RECURSIVE OrderByName(_)
OrderByName(S) ==
    IF S = {} THEN << >>
    ELSE LET m == CHOOSE x \in S :
                      \A y \in S \ {x} : LexLess(Chars(x), Chars(y))
         IN << m >> \o OrderByName(S \ {m})

\* A listing that forgets the ORDER BY: names in declaration order.
RECURSIVE DeclOrder(_, _)
DeclOrder(S, k) ==
    IF k > Len(get_litellm_spanner_ddl) THEN << >>
    ELSE (IF get_litellm_spanner_ddl[k].name \in S
          THEN << get_litellm_spanner_ddl[k].name >> ELSE << >>)
         \o DeclOrder(S, k + 1)

\* The rows of the table listing of setup_litellm_schema.
tables_query(cat) == OrderByName({n \in TableNames(cat) : LikeLitellm(n)})

\* test_spanner.py, method 1: every table in name order, then the Python
\* filter on the prefix.
litellm_tables(cat) == SelectSeq(OrderByName(TableNames(cat)), StartsWithLitellm)

\* test_spanner.py, method 2: the filter in the query.
starts_with_query(cat) ==
    OrderByName({n \in TableNames(cat) : StartsWithLitellm(n)})

\* known_tables of test_sqlalchemy_connection.
known_tables ==
    { "litellm_usertable", "litellm_teamtable", "litellm_proxymodeltable",
      "litellm_usagetable", "litellm_verificationtoken" }

\* Tables a database can hold that none of the scripts created: one whose
\* name has another character where the prefix has its underscore, and one
\* of another application.
OtherTables == { Table("litellmx_audit"), Table("app_settings") }

(***************************************************************************)
(* The sample rows of test_litellm_operations.                             *)
(***************************************************************************)
TestUser == "test-user-123"

TestToken == [token |-> "sk-test-token-123", user_id |-> "test-user-123"]

HasTables(db, cat) ==
    /\ db
    /\ {"litellm_usertable", "litellm_verificationtoken"} \subseteq TableNames(cat)

\* insert_test_data can commit: both tables exist and neither key is taken.
InsertValid(db, cat, users, tokens) ==
    /\ HasTables(db, cat)
    /\ TestUser \notin users
    /\ \A t \in tokens : t.token # TestToken.token

\* The rows after insert_test_data committed.
insert_test_data(users, tokens) ==
    [users |-> users \cup {TestUser}, tokens |-> tokens \cup {TestToken}]

\* A clean-up that deletes the token row only.
cleanup_token_only(users, tokens) ==
    [users |-> users, tokens |-> {t \in tokens : t.user_id # TestUser}]

\* The rows after cleanup_test_data committed: both DELETEs select by user_id.
cleanup_test_data(users, tokens) ==
    [users |-> users \ {TestUser},
     tokens |-> {t \in tokens : t.user_id # TestUser}]

\* Rows that someone else may have put into the two tables: a user of
\* their own and one with the sample user's id; a token of that other user
\* and a token of another key that carries the sample user's id.
OtherUsers == { "alice", TestUser }

OtherTokens ==
    { [token |-> "sk-alice", user_id |-> "alice"],
      [token |-> "sk-other", user_id |-> TestUser] }

(***************************************************************************)
(* input(...).lower().strip() of main, on the characters typed.            *)
(***************************************************************************)
LowerChar(c) ==
    IF c = "Y" THEN "y" ELSE IF c = "N" THEN "n" ELSE
    IF c = "E" THEN "e" ELSE IF c = "S" THEN "s" ELSE c

Lower(s) == [k \in 1..Len(s) |-> LowerChar(s[k])]

RECURSIVE LStrip(_)
LStrip(s) == IF s # << >> /\ Head(s) = " " THEN LStrip(Tail(s)) ELSE s

RECURSIVE RStrip(_)
RStrip(s) ==
    IF s # << >> /\ s[Len(s)] = " " THEN RStrip(SubSeq(s, 1, Len(s) - 1)) ELSE s

Strip(s) == LStrip(RStrip(s))

\* What the operator may type at the prompt.
Answers ==
    { << "y" >>, << "Y" >>, << " ", "y", " " >>, << "n" >>,
      << "y", "e", "s" >>, << >> }

(***************************************************************************)
(* State.                                                                  *)
(*   instanceExists, dbExists, catalog, userRows, tokenRows                *)
(*       the Spanner instance, its database, the objects the DDL created   *)
(*       and the rows of litellm_usertable and litellm_verificationtoken   *)
(*   pending     administrative operations submitted and not yet waited    *)
(*               for to an end: [proc, kind, batch]                        *)
(*   chunk_size  the chunk size of setup_litellm_schema                    *)
(*   concurrent  whether two script executions may overlap                 *)
(*   runs        script executions started so far                          *)
(*   run         per process, the execution in progress: its position pc,  *)
(*               the script, the local variables of the script, what it    *)
(*               printed, its exit code (-1 while it runs), and calls, the *)
(*               client-library calls it has made, in order; results is    *)
(*               the rows of the liveness query while the probe holds them *)
(*               and before the rows of the two tables as they were when   *)
(*               test_litellm_operations was entered                       *)
(***************************************************************************)
VARIABLES instanceExists, dbExists, catalog, userRows, tokenRows, pending,
          chunk_size, concurrent, runs, run

vars == << instanceExists, dbExists, catalog, userRows, tokenRows, pending,
           chunk_size, concurrent, runs, run >>

service == << instanceExists, dbExists, catalog, userRows, tokenRows, pending >>

data == << catalog, userRows, tokenRows >>

\* One client-library call: the method, its distinguishing argument (the
\* dialect, the SQL text, the transaction body), for a DDL batch its number
\* and statements, and how the call ended.
Call(op, arg, batch, stmts, res) ==
    [op |-> op, arg |-> arg, batch |-> batch, stmts |-> stmts, res |-> res]

\* A call that carries no statements.
C0(op, arg, res) == Call(op, arg, 0, << >>, res)

IdleRun ==
    [pc |-> "idle", script |-> "none", calls |-> << >>, i |-> 0,
     success |-> FALSE, setup_mode |-> << >>, listed |-> << >>,
     results |-> << >>, tables |-> << >>, sqlalchemy_success |-> FALSE,
     accessible_tables |-> {}, before |-> [users |-> {}, tokens |-> {}],
     outcome |-> "", exitCode |-> -1, printed |-> {}, opsOk |-> FALSE,
     start |-> [db |-> FALSE, catalog |-> {}, users |-> {}, tokens |-> {}]]

InitService ==
    /\ instanceExists \in BOOLEAN
    /\ dbExists \in BOOLEAN
    /\ dbExists => instanceExists
    /\ catalog \in {c \in SUBSET OtherTables : dbExists \/ c = {}}
    /\ userRows = {}
    /\ tokenRows = {}
    /\ pending = {}

Init ==
    /\ InitService
    /\ chunk_size = ChunkSize
    /\ concurrent = FALSE
    /\ runs = 0
    /\ run = [p \in Procs |-> IdleRun]

\* The same program with the chunk size of setup_litellm_schema set to any
\* value from 1 up.
InitAnyChunk ==
    /\ InitService
    /\ chunk_size \in 1..MaxChunkSize
    /\ concurrent = FALSE
    /\ runs = 0
    /\ run = [p \in Procs |-> IdleRun]

\* Two executions, one per process, that may overlap on the same database.
InitConcurrent ==
    /\ InitService
    /\ chunk_size = ChunkSize
    /\ concurrent = TRUE
    /\ runs = 0
    /\ run = [p \in Procs |-> IdleRun]

Stopped(p) == run[p].pc \in {"idle", "exited"}

\* sys.exit(code), or main returning (code 0), or an uncaught exception
\* (code 1).
Exit(r, code) == [r EXCEPT !.pc = "exited", !.exitCode = code]

Log(r, c) == [r EXCEPT !.calls = Append(@, c)]

Say(r, m) == [r EXCEPT !.printed = @ \cup {m}]

(***************************************************************************)
(* A script is started.  One after the other, the executions are those of  *)
(* the first process; overlapping, each process is one execution.          *)
(***************************************************************************)
Start(p, s) ==
    /\ Stopped(p)
    /\ runs < MaxRuns
    /\ IF concurrent THEN run[p].pc = "idle"
       ELSE p = FirstProc /\ \A q \in Procs : Stopped(q)
    /\ runs' = runs + 1
    /\ run' = [run EXCEPT ![p] =
                 [IdleRun EXCEPT !.pc = IF s = "test" THEN "direct_client"
                                       ELSE "check_prerequisites",
                      !.script = s,
                      !.start = [db |-> dbExists, catalog |-> catalog,
                                 users |-> userRows, tokens |-> tokenRows]]]
    /\ UNCHANGED << service, chunk_size, concurrent >>

(***************************************************************************)
(* check_prerequisites and the start of main.                              *)
(***************************************************************************)
\* check_prerequisites: the imports succeed and the credential file, when
\* one is named, exists.  spanner-connect.py imports no admin client.
PrerequisitesOk(s, pkg, admin, cred) ==
    /\ pkg
    /\ s = "schema" => admin
    /\ cred # "missing"

\* main: if not check_prerequisites(): sys.exit(1).
MainAfterPrerequisites(r, ok) ==
    IF ok THEN [r EXCEPT !.pc = "client"]
    ELSE Exit([r EXCEPT !.outcome = "MissingPrerequisite"], 1)

CheckPrerequisites(p) ==
    /\ run[p].pc = "check_prerequisites"
    /\ \E pkg \in BOOLEAN, admin \in BOOLEAN,
          cred \in {"unset", "present", "missing"} :
         run' = [run EXCEPT ![p] =
                   MainAfterPrerequisites(@,
                       PrerequisitesOk(@.script, pkg, admin, cred))]
    /\ UNCHANGED << service, chunk_size, concurrent, runs >>

(***************************************************************************)
(* test_spanner_connection (both scripts) and what main does with its      *)
(* result.                                                                 *)
(***************************************************************************)
\* main after test_spanner_connection.  spanner-connect.py: sys.exit(0) on
\* success, sys.exit(1) otherwise.  spanner-schema.py: sys.exit(1) on
\* failure, the prompt otherwise.
MainAfterProbe(r, ok) ==
    IF r.script = "connect" THEN Exit(r, IF ok THEN 0 ELSE 1)
    ELSE IF ok THEN [r EXCEPT !.pc = "prompt"]
    ELSE Exit(r, 1)

\* return False (connect) / return False, None, None, None (schema).
ProbeFail(r, out) ==
    MainAfterProbe(Say([r EXCEPT !.success = FALSE, !.outcome = out],
                       "FAILED"), FALSE)

\* "Spanner connectivity test PASSED!" and return True.
ProbePass(r) ==
    MainAfterProbe(Say([r EXCEPT !.success = TRUE], "PASSED"), TRUE)

\* What exists() answers: the state of the service, or an exception.
Answer(raise, value) ==
    IF raise THEN "raise" ELSE IF value THEN "true" ELSE "false"

\* spanner.Client(project=PROJECT_ID); spanner_client.instance(INSTANCE_ID).
AfterClient(r, res) ==
    IF res = "ok" THEN [r EXCEPT !.pc = "instance_exists"]
    ELSE ProbeFail(r, "Unreachable")

ClientInit(p) ==
    /\ run[p].pc = "client"
    /\ \E res \in {"ok", "raise"} :
         run' = [run EXCEPT ![p] =
                   AfterClient(Log(@, C0("spanner.Client", "", res)), res)]
    /\ UNCHANGED << service, chunk_size, concurrent, runs >>

\* A probe that goes on to the database whatever instance.exists() says.
AfterInstanceExistsAnyway(r, res) ==
    IF res = "raise" THEN ProbeFail(r, "Unreachable")
    ELSE [r EXCEPT !.pc = "database_exists"]

\* if instance.exists(): ... else: return False.
AfterInstanceExists(r, res) ==
    IF res = "true" THEN [r EXCEPT !.pc = "database_exists"]
    ELSE IF res = "false" THEN ProbeFail(r, "InstanceMissing")
    ELSE ProbeFail(r, "Unreachable")

InstanceExists(p) ==
    /\ run[p].pc = "instance_exists"
    /\ \E raise \in BOOLEAN :
         LET res == Answer(raise, instanceExists)
         IN run' = [run EXCEPT ![p] =
                      AfterInstanceExists(
                          Log(@, C0("instance.exists", "", res)), res)]
    /\ UNCHANGED << service, chunk_size, concurrent, runs >>

\* if database.exists(): ... else: ...
\* spanner-connect.py returns False when the database is missing;
\* spanner-schema.py prints that it will be created and goes on to its
\* second database.exists().
AfterDatabaseExists(r, res) ==
    IF res = "raise" THEN ProbeFail(r, "Unreachable")
    ELSE IF r.script = "connect"
    THEN (IF res = "true" THEN [r EXCEPT !.pc = "select_1"]
          ELSE ProbeFail(r, "DatabaseMissing"))
    ELSE (IF res = "true" THEN [r EXCEPT !.pc = "database_exists_again"]
          ELSE Say([r EXCEPT !.pc = "database_exists_again"],
                   "will_be_created"))

DatabaseExists(p) ==
    /\ run[p].pc = "database_exists"
    /\ \E raise \in BOOLEAN :
         LET res == Answer(raise, instanceExists /\ dbExists)
         IN run' = [run EXCEPT ![p] =
                      AfterDatabaseExists(
                          Log(@, C0("database.exists", "probe", res)), res)]
    /\ UNCHANGED << service, chunk_size, concurrent, runs >>

\* A probe that queries without asking again whether the database exists.
AfterDatabaseExistsAgainQuery(r, res) ==
    IF res = "raise" THEN ProbeFail(r, "Unreachable")
    ELSE [r EXCEPT !.pc = "select_1"]

\* spanner-schema.py: if database.exists(): <query>; then PASSED.
AfterDatabaseExistsAgain(r, res) ==
    IF res = "true" THEN [r EXCEPT !.pc = "select_1"]
    ELSE IF res = "false" THEN ProbePass(r)
    ELSE ProbeFail(r, "Unreachable")

DatabaseExistsAgain(p) ==
    /\ run[p].pc = "database_exists_again"
    /\ \E raise \in BOOLEAN :
         LET res == Answer(raise, instanceExists /\ dbExists)
         IN run' = [run EXCEPT ![p] =
                      AfterDatabaseExistsAgain(
                          Log(@, C0("database.exists", "probe again", res)),
                          res)]
    /\ UNCHANGED << service, chunk_size, concurrent, runs >>

\* What execute_sql("SELECT 1 as test_column") can hand back as results:
\* the value of test_column in each row.  The one row 1 is the answer of a
\* healthy service; the others are the answers a liveness check is there
\* to tell apart from it.
Select1Results == { << 1 >>, << >>, << 0 >>, << 1, 1 >> }

\* with database.snapshot(): execute_sql("SELECT 1 as test_column"); every
\* row is printed; then PASSED.  An exception is the failure.
AfterSelect1(r, res) ==
    IF res = "ok" THEN ProbePass(r)
    ELSE ProbeFail(r, "LivenessCheckFailed")

Select1(p) ==
    /\ run[p].pc = "select_1"
    /\ \E res \in {"ok", "raise"} :
       \E rows \in (IF res = "ok" THEN Select1Results ELSE { << >> }) :
         /\ res = "ok" => instanceExists /\ dbExists
         /\ run' = [run EXCEPT ![p] =
                      AfterSelect1(
                          [Log(@, C0("execute_sql", "SELECT 1", res))
                             EXCEPT !.results = rows],
                          res)]
    /\ UNCHANGED << service, chunk_size, concurrent, runs >>

(***************************************************************************)
(* main of spanner-schema.py: the prompt.                                  *)
(***************************************************************************)
\* A prompt that takes every answer for a yes.
AfterPromptAlways(r, mode) == [r EXCEPT !.setup_mode = mode, !.pc = "create_check"]

\* setup_mode = input(...).lower().strip(); if setup_mode == 'y': ... else:
\* "Schema setup skipped", and main returns.  The results of the probe's
\* query were a local of test_spanner_connection and are gone by now.
AfterPrompt(r, mode) ==
    IF mode = << "y" >>
    THEN [r EXCEPT !.setup_mode = mode, !.pc = "create_check"]
    ELSE Exit(Say([r EXCEPT !.setup_mode = mode], "setup_skipped"), 0)

Prompt(p) ==
    /\ run[p].pc = "prompt"
    /\ \E a \in Answers :
         run' = [run EXCEPT ![p] =
                   AfterPrompt([@ EXCEPT !.results = << >>],
                               Strip(Lower(a)))]
    /\ UNCHANGED << service, chunk_size, concurrent, runs >>

(***************************************************************************)
(* create_database_if_not_exists, and main's use of its result.            *)
(***************************************************************************)
\* main that goes on to the schema whatever the creation returned.
MainAfterCreateAnyway(r, ok) == [r EXCEPT !.pc = "update_database_ddl", !.i = 0]

\* main: if not create_database_if_not_exists(...): sys.exit(1); then
\* setup_litellm_schema starts its loop at i = 0.
MainAfterCreate(r, ok) ==
    IF ok THEN [r EXCEPT !.pc = "update_database_ddl", !.i = 0]
    ELSE Exit([r EXCEPT !.outcome = "CreateFailed"], 1)

\* A creation that is attempted whether or not the database exists.
AfterCreateCheckAlways(r, res) ==
    IF res = "raise" THEN Exit([r EXCEPT !.outcome = "UncaughtException"], 1)
    ELSE [r EXCEPT !.pc = "create_database"]

\* if database.exists(): "already exists, skipping creation", return True.
\* The call stands outside the try: its exception ends the process.
AfterCreateCheck(r, res) ==
    IF res = "true" THEN MainAfterCreate(Say(r, "skipping_creation"), TRUE)
    ELSE IF res = "false" THEN [r EXCEPT !.pc = "create_database"]
    ELSE Exit([r EXCEPT !.outcome = "UncaughtException"], 1)

CreateCheck(p) ==
    /\ run[p].pc = "create_check"
    /\ \E raise \in BOOLEAN :
         LET res == Answer(raise, instanceExists /\ dbExists)
         IN run' = [run EXCEPT ![p] =
                      AfterCreateCheck(
                          Log(@, C0("database.exists", "create", res)), res)]
    /\ UNCHANGED << service, chunk_size, concurrent, runs >>

\* DatabaseAdminClient() and create_database(..., database_dialect=
\* "POSTGRESQL") return the operation, or one of them raises and the
\* function returns False.
AfterCreateDatabase(r, res) ==
    IF res = "ok" THEN [r EXCEPT !.pc = "create_result"]
    ELSE MainAfterCreate(r, FALSE)

CreateDatabase(p) ==
    /\ run[p].pc = "create_database"
    /\ \E res \in {"ok", "raise"} :
         /\ run' = [run EXCEPT ![p] =
                      AfterCreateDatabase(
                          Log(@, C0("create_database", "POSTGRESQL", res)),
                          res)]
         /\ pending' = IF res = "ok"
                       THEN pending \cup
                            {[proc |-> p, kind |-> "create", batch |-> 0]}
                       ELSE pending
    /\ UNCHANGED << instanceExists, dbExists, data, chunk_size, concurrent,
                    runs >>

\* request.result(timeout=300): the database was created; or the operation
\* failed; or the wait timed out, the database created or not.
AfterCreateResult(r, res) ==
    IF res = "ok" THEN MainAfterCreate(Say(r, "database_created"), TRUE)
    ELSE MainAfterCreate(r, FALSE)

CreateResult(p) ==
    /\ run[p].pc = "create_result"
    /\ \E res \in {"ok", "error", "timeout"}, made \in BOOLEAN :
         /\ res = "ok" => made /\ instanceExists /\ ~dbExists
         /\ res = "error" => ~made
         /\ made => instanceExists
         /\ dbExists' = (dbExists \/ made)
         /\ run' = [run EXCEPT ![p] =
                      AfterCreateResult(
                          Log(@, C0("operation.result", "create", res)),
                          res)]
    /\ pending' = pending \ {[proc |-> p, kind |-> "create", batch |-> 0]}
    /\ UNCHANGED << instanceExists, data, chunk_size, concurrent, runs >>

(***************************************************************************)
(* setup_litellm_schema, and main's use of its result.                     *)
(***************************************************************************)
\* main that goes on to the sample operations whatever the set-up returned.
MainAfterSchemaAnyway(r, ok) == [r EXCEPT !.pc = "insert_test_data"]

\* main: if not setup_litellm_schema(database): sys.exit(1); then
\* test_litellm_operations.
MainAfterSchema(r, ok) ==
    IF ok THEN [r EXCEPT !.pc = "insert_test_data"]
    ELSE Exit(r, 1)

\* except Exception: "Schema setup failed", return False.
SchemaFail(r, out) == MainAfterSchema([r EXCEPT !.outcome = out], FALSE)

\* update_database_ddl(database=..., statements=chunk) returns the
\* operation, or raises.  DatabaseAdminClient(), built in the same try block
\* before the first chunk, fails the same way and is counted with the
\* submission of batch 1.
AfterUpdateDatabaseDdl(r, res) ==
    IF res = "ok" THEN [r EXCEPT !.pc = "operation_result"]
    ELSE SchemaFail(r, "DdlBatchFailed")

UpdateDatabaseDdl(p) ==
    /\ run[p].pc = "update_database_ddl"
    /\ LET b == BatchNo(run[p].i, chunk_size)
           chunk == Chunk(get_litellm_spanner_ddl, run[p].i, chunk_size)
       IN \E res \in {"ok", "raise"} :
            /\ res = "ok" => dbExists
            /\ run' = [run EXCEPT ![p] =
                         AfterUpdateDatabaseDdl(
                             Log(@, Call("update_database_ddl", "", b, chunk,
                                         res)), res)]
            /\ pending' = IF res = "ok"
                          THEN pending \cup
                               {[proc |-> p, kind |-> "ddl", batch |-> b]}
                          ELSE pending
    /\ UNCHANGED << instanceExists, dbExists, data, chunk_size, concurrent,
                    runs >>

\* A loop that goes on to the next chunk although the wait failed.
AfterOperationResultSwallow(r, res, n, cs) ==
    LET j == NextStart(r.i, cs)
    IN IF j < n THEN [r EXCEPT !.i = j, !.pc = "update_database_ddl"]
       ELSE Say([r EXCEPT !.i = j, !.pc = "tables_query"], "schema_completed")

\* operation.result(timeout=300) returned: the next chunk, or after the last
\* one "LiteLLM schema setup completed successfully!" and the table listing.
\* It raised: return False.
AfterOperationResult(r, res, n, cs) ==
    IF res = "ok"
    THEN LET j == NextStart(r.i, cs)
         IN IF j < n THEN [r EXCEPT !.i = j, !.pc = "update_database_ddl"]
            ELSE Say([r EXCEPT !.i = j, !.pc = "tables_query"],
                     "schema_completed")
    ELSE SchemaFail(r, "DdlBatchFailed")

\* The service runs the statements of the batch in order and keeps what it
\* applied when one fails.  k statements were applied when the wait ended:
\* all of them ("ok"); those before the statement the service rejected, a
\* name already taken or an index on a table that is not there ("rejected");
\* those before an acceptable statement that failed for a reason outside
\* the catalog ("error"); any number the service could apply when the client
\* stopped waiting ("timeout").
OperationResult(p) ==
    /\ run[p].pc = "operation_result"
    /\ LET b == BatchNo(run[p].i, chunk_size)
           chunk == Chunk(get_litellm_spanner_ddl, run[p].i, chunk_size)
           v == IF dbExists THEN ValidPrefix(catalog, chunk, 0) ELSE 0
       IN \E res \in {"ok", "rejected", "error", "timeout"}, k \in 0..v :
            /\ res = "ok" => k = Len(chunk)
            /\ res = "rejected" => k = v /\ v < Len(chunk)
            /\ res = "error" => k < v
            /\ catalog' = ApplyStmts(catalog, chunk, k)
            /\ run' = [run EXCEPT ![p] =
                         AfterOperationResult(
                             Log(@, Call("operation.result", "ddl", b, chunk,
                                         res)),
                             res, Len(get_litellm_spanner_ddl), chunk_size)]
            /\ pending' = pending \ {[proc |-> p, kind |-> "ddl", batch |-> b]}
    /\ UNCHANGED << instanceExists, dbExists, userRows, tokenRows, chunk_size,
                    concurrent, runs >>

\* The table listing; its exception is caught by the same except clause.
AfterTablesQuery(r, res, rows) ==
    IF res = "ok" THEN MainAfterSchema([r EXCEPT !.listed = rows], TRUE)
    ELSE SchemaFail(r, "VerifyFailed")

TablesQuery(p) ==
    /\ run[p].pc = "tables_query"
    /\ \E res \in {"ok", "raise"} :
         /\ res = "ok" => dbExists
         /\ run' = [run EXCEPT ![p] =
                      AfterTablesQuery(
                          Log(@, C0("execute_sql", "information_schema.tables",
                                    res)),
                          res, tables_query(catalog))]
    /\ UNCHANGED << service, chunk_size, concurrent, runs >>

(***************************************************************************)
(* test_litellm_operations, and the end of main.                           *)
(***************************************************************************)
\* How database.run_in_transaction(body) can end: the transaction committed
\* and the call returned; it was rolled back and the call raised; it
\* committed and the call raised all the same (the answer was lost).
TxnOutcomes == {"committed", "aborted", "commit_unknown"}

TxnApplied(o) == o \in {"committed", "commit_unknown"}

Rows(users, tokens) == [users |-> users, tokens |-> tokens]

\* except Exception: "LiteLLM operations test failed", return False.
OpsFail(r) ==
    [r EXCEPT !.opsOk = FALSE, !.outcome = "SampleOperationFailed",
              !.pc = "main_finish"]

\* database.run_in_transaction(insert_test_data): both INSERTs or neither.
run_insert(o, users, tokens) ==
    IF TxnApplied(o) THEN insert_test_data(users, tokens)
    ELSE Rows(users, tokens)

AfterInsert(r, o) ==
    IF o = "committed" THEN [r EXCEPT !.pc = "sample_queries"]
    ELSE OpsFail(r)

InsertTestData(p) ==
    /\ run[p].pc = "insert_test_data"
    /\ \E o \in TxnOutcomes :
         /\ TxnApplied(o) => InsertValid(dbExists, catalog, userRows, tokenRows)
         /\ LET rows == run_insert(o, userRows, tokenRows)
            IN /\ userRows' = rows.users
               /\ tokenRows' = rows.tokens
         /\ run' = [run EXCEPT ![p] =
                      AfterInsert(
                          [Log(@, C0("run_in_transaction", "insert_test_data",
                                     o))
                             EXCEPT !.before = Rows(userRows, tokenRows)],
                          o)]
    /\ UNCHANGED << instanceExists, dbExists, catalog, pending, chunk_size,
                    concurrent, runs >>

\* The read-back snapshot: both SELECTs, every row printed.
AfterSampleQueries(r, res) ==
    IF res = "ok" THEN [r EXCEPT !.pc = "cleanup_test_data"]
    ELSE OpsFail(r)

SampleQueries(p) ==
    /\ run[p].pc = "sample_queries"
    /\ \E res \in {"ok", "raise"} :
         /\ res = "ok" => HasTables(dbExists, catalog)
         /\ run' = [run EXCEPT ![p] =
                      AfterSampleQueries(
                          Log(@, C0("execute_sql", "sample queries", res)),
                          res)]
    /\ UNCHANGED << service, chunk_size, concurrent, runs >>

\* A clean-up whose two DELETEs are not one transaction: the first is kept
\* when the call fails.
run_cleanup_split(o, users, tokens) ==
    IF TxnApplied(o) THEN cleanup_test_data(users, tokens)
    ELSE cleanup_token_only(users, tokens)

\* A clean-up that commits nothing.
run_cleanup_none(o, users, tokens) == Rows(users, tokens)

\* database.run_in_transaction(cleanup_test_data): both DELETEs or neither.
run_cleanup(o, users, tokens) ==
    IF TxnApplied(o) THEN cleanup_test_data(users, tokens)
    ELSE Rows(users, tokens)

\* "Test data cleaned up", return True; or the except clause.
AfterCleanup(r, o) ==
    IF o = "committed" THEN [r EXCEPT !.opsOk = TRUE, !.pc = "main_finish"]
    ELSE OpsFail(r)

CleanupTestData(p) ==
    /\ run[p].pc = "cleanup_test_data"
    /\ \E o \in TxnOutcomes :
         /\ TxnApplied(o) => HasTables(dbExists, catalog)
         /\ LET rows == run_cleanup(o, userRows, tokenRows)
            IN /\ userRows' = rows.users
               /\ tokenRows' = rows.tokens
         /\ run' = [run EXCEPT ![p] =
                      AfterCleanup(
                          Log(@, C0("run_in_transaction", "cleanup_test_data",
                                    o)), o)]
    /\ UNCHANGED << instanceExists, dbExists, catalog, pending, chunk_size,
                    concurrent, runs >>

\* main: if not test_litellm_operations(database): print a warning.  Then,
\* in both cases, "Setup completed successfully!", the configuration and the
\* next steps; main returns and the process exits with code 0.
MainAfterOperations(r) ==
    Exit(Say(IF r.opsOk THEN r ELSE Say(r, "operations_test_failed"),
             "setup_completed"), 0)

MainFinish(p) ==
    /\ run[p].pc = "main_finish"
    /\ run' = [run EXCEPT ![p] = MainAfterOperations(@)]
    /\ UNCHANGED << service, chunk_size, concurrent, runs >>

(***************************************************************************)
(* test_spanner.py: test_spanner_direct, test_sqlalchemy_connection and    *)
(* the lines that print both results.  The script ends without sys.exit.   *)
(***************************************************************************)
\* except Exception: "Direct connection failed", return False; __main__ goes
\* on to test_sqlalchemy_connection.
DirectFail(r) == [r EXCEPT !.success = FALSE, !.pc = "sqlalchemy"]

\* spanner.Client(project=PROJECT_ID), instance(), database().
AfterDirectClient(r, res) ==
    IF res = "ok" THEN [r EXCEPT !.pc = "direct_select_1"] ELSE DirectFail(r)

DirectClient(p) ==
    /\ run[p].pc = "direct_client"
    /\ \E res \in {"ok", "raise"} :
         run' = [run EXCEPT ![p] =
                   AfterDirectClient(Log(@, C0("spanner.Client", "", res)),
                                     res)]
    /\ UNCHANGED << service, chunk_size, concurrent, runs >>

\* The basic query: every row is printed.
AfterDirectSelect1(r, res) ==
    IF res = "ok" THEN [r EXCEPT !.pc = "direct_tables"] ELSE DirectFail(r)

DirectSelect1(p) ==
    /\ run[p].pc = "direct_select_1"
    /\ \E res \in {"ok", "raise"} :
       \E rows \in (IF res = "ok" THEN Select1Results ELSE { << >> }) :
         /\ res = "ok" => instanceExists /\ dbExists
         /\ run' = [run EXCEPT ![p] =
                      AfterDirectSelect1(
                          [Log(@, C0("execute_sql", "SELECT 1", res))
                             EXCEPT !.results = rows],
                          res)]
    /\ UNCHANGED << service, chunk_size, concurrent, runs >>

\* Method 1.  The names with the prefix are printed, or "No LiteLLM tables
\* found"; an exception of the query is printed and nothing more.
AfterDirectTables(r, res, found) ==
    LET r1 == [r EXCEPT !.pc = "direct_starts_with", !.results = << >>]
    IN IF res # "ok" THEN Say(r1, "information_schema_failed")
       ELSE IF found # << >> THEN [r1 EXCEPT !.listed = found]
       ELSE Say(r1, "no_litellm_tables")

DirectTables(p) ==
    /\ run[p].pc = "direct_tables"
    /\ \E res \in {"ok", "raise"} :
         /\ res = "ok" => instanceExists /\ dbExists
         /\ run' = [run EXCEPT ![p] =
                      AfterDirectTables(
                          Log(@, C0("execute_sql",
                                    "information_schema.tables public", res)),
                          res, litellm_tables(catalog))]
    /\ UNCHANGED << service, chunk_size, concurrent, runs >>

\* Method 2, and return True.
AfterDirectStartsWith(r, res, found) ==
    LET r1 == [r EXCEPT !.pc = "sqlalchemy", !.success = TRUE]
    IN IF res # "ok" THEN Say(r1, "starts_with_failed")
       ELSE IF found # << >> THEN [r1 EXCEPT !.tables = found]
       ELSE Say(r1, "starts_with_no_litellm_tables")

DirectStartsWith(p) ==
    /\ run[p].pc = "direct_starts_with"
    /\ \E res \in {"ok", "raise"} :
         /\ res = "ok" => instanceExists /\ dbExists
         /\ run' = [run EXCEPT ![p] =
                      AfterDirectStartsWith(
                          Log(@, C0("execute_sql",
                                    "information_schema.tables STARTS_WITH",
                                    res)),
                          res, starts_with_query(catalog))]
    /\ UNCHANGED << service, chunk_size, concurrent, runs >>

\* test_sqlalchemy_connection, whose statements are all SELECTs: a failing
\* engine, connection or first SELECT 1 returns False; the known tables are
\* probed one by one only when COUNT(*) on litellm_usertable worked, and a
\* probe that fails is passed over.  Then __main__ prints both results and
\* the script ends.
AfterSqlalchemy(r, res, cat) ==
    Exit(Say([r EXCEPT !.sqlalchemy_success = (res = "ok"),
                       !.accessible_tables =
                           IF res = "ok"
                              /\ "litellm_usertable" \in TableNames(cat)
                           THEN known_tables \cap TableNames(cat) ELSE {}],
             IF r.success /\ res = "ok" THEN "all_tests_passed"
             ELSE "some_tests_failed"), 0)

Sqlalchemy(p) ==
    /\ run[p].pc = "sqlalchemy"
    /\ \E res \in {"ok", "raise"} :
         /\ res = "ok" => instanceExists /\ dbExists
         /\ run' = [run EXCEPT ![p] =
                      AfterSqlalchemy(
                          Log(@, C0("engine.connect", "sqlalchemy", res)),
                          res, catalog)]
    /\ UNCHANGED << service, chunk_size, concurrent, runs >>

(***************************************************************************)
(* Specifications.                                                         *)
(***************************************************************************)
Next ==
    \E p \in Procs :
        \/ \E s \in {"connect", "schema", "test"} : Start(p, s)
        \/ CheckPrerequisites(p)
        \/ ClientInit(p)
        \/ InstanceExists(p)
        \/ DatabaseExists(p)
        \/ DatabaseExistsAgain(p)
        \/ Select1(p)
        \/ Prompt(p)
        \/ CreateCheck(p)
        \/ CreateDatabase(p)
        \/ CreateResult(p)
        \/ UpdateDatabaseDdl(p)
        \/ OperationResult(p)
        \/ TablesQuery(p)
        \/ InsertTestData(p)
        \/ SampleQueries(p)
        \/ CleanupTestData(p)
        \/ MainFinish(p)
        \/ DirectClient(p)
        \/ DirectSelect1(p)
        \/ DirectTables(p)
        \/ DirectStartsWith(p)
        \/ Sqlalchemy(p)

\* The scripts as written, one execution after the other.
Spec == Init /\ [][Next]_vars

\* The same, for every chunk size from 1 up.
SpecAnyChunk == InitAnyChunk /\ [][Next]_vars

\* The scripts as written, executions overlapping.
SpecConcurrent == InitConcurrent /\ [][Next]_vars

\* Another user of the database inserts a row into litellm_usertable or
\* litellm_verificationtoken, each under its primary key.
OtherWrite ==
    /\ HasTables(dbExists, catalog)
    /\ \/ \E u \in OtherUsers \ userRows :
            /\ userRows' = userRows \cup {u}
            /\ tokenRows' = tokenRows
       \/ \E t \in OtherTokens :
            /\ \A x \in tokenRows : x.token # t.token
            /\ tokenRows' = tokenRows \cup {t}
            /\ userRows' = userRows
    /\ UNCHANGED << instanceExists, dbExists, catalog, pending, chunk_size,
                    concurrent, runs, run >>

NextOtherWriter == Next \/ OtherWrite

\* The scripts one after the other on a database whose two tables others
\* write to as well, so that test_litellm_operations meets any contents.
SpecOtherWriter == Init /\ [][NextOtherWriter]_vars

(***************************************************************************)
(* Properties.  The calls of a run are read from run[p].calls.             *)
(***************************************************************************)
CallsOf(p) == run[p].calls

Pos(p) == 1..Len(CallsOf(p))

Exited(p) == run[p].pc = "exited"

IsDdlSubmit(c) == c.op = "update_database_ddl"

IsDdlWait(c) == c.op = "operation.result" /\ c.arg = "ddl"

\* A DDL batch failed or timed out: the submission raised, or the wait did.
DdlFailed(c) ==
    \/ IsDdlSubmit(c) /\ c.res = "raise"
    \/ IsDdlWait(c) /\ c.res # "ok"

DdlOutstanding == {o \in pending : o.kind = "ddl"}

AllObjects == {get_litellm_spanner_ddl[k] : k \in 1..Len(get_litellm_spanner_ddl)}

\* C1: in both scripts, once instance.exists() has returned false the probe
\* makes no further call (no database.exists(), no SELECT 1, nothing else):
\* it returns failure as InstanceMissing and the process exits with code 1.
C1_InstanceMissingStops ==
    \A p \in Procs : \A j \in Pos(p) :
        (CallsOf(p)[j].op = "instance.exists" /\ CallsOf(p)[j].res = "false")
        => /\ j = Len(CallsOf(p))
           /\ Exited(p)
           /\ run[p].exitCode = 1
           /\ run[p].success = FALSE
           /\ run[p].outcome = "InstanceMissing"
           /\ "PASSED" \notin run[p].printed

C1_Witness ==
    \E p \in Procs :
        /\ run[p].script = "schema"
        /\ Exited(p)
        /\ Len(CallsOf(p)) = 2
        /\ CallsOf(p)[2].op = "instance.exists"
        /\ CallsOf(p)[2].res = "false"
        /\ ~instanceExists

\* C2: the statements go out as contiguous chunks of 5 in declaration order
\* (batch b holds statements 5(b-1)+1 .. min(5b, 11)); the first submission
\* is batch 1 and each later one is the next batch, made directly after the
\* wait for the batch before it returned; never are two batches outstanding.
C2_BatchesInOrder ==
    /\ Cardinality(DdlOutstanding) <= 1
    /\ \A p \in Procs : \A j \in Pos(p) :
         LET c == CallsOf(p)[j]
         IN IsDdlSubmit(c) =>
              /\ c.batch >= 1
              /\ c.stmts = [k \in 1..(Min(5 * c.batch, 11) - 5 * (c.batch - 1))
                              |-> get_litellm_spanner_ddl[5 * (c.batch - 1) + k]]
              /\ c.stmts # << >>
              /\ c.batch = 1 =>
                   \A h \in 1..(j - 1) : ~IsDdlSubmit(CallsOf(p)[h])
              /\ c.batch > 1 =>
                   /\ j > 2
                   /\ IsDdlWait(CallsOf(p)[j - 1])
                   /\ CallsOf(p)[j - 1].batch = c.batch - 1
                   /\ CallsOf(p)[j - 1].res = "ok"
                   /\ IsDdlSubmit(CallsOf(p)[j - 2])
                   /\ CallsOf(p)[j - 2].batch = c.batch - 1
              /\ (c.res = "ok" /\ j = Len(CallsOf(p))) =>
                   DdlOutstanding = {[proc |-> p, kind |-> "ddl",
                                      batch |-> c.batch]}

C2_Witness ==
    \E p \in Procs :
        /\ Len(CallsOf(p)) > 0
        /\ LET c == CallsOf(p)[Len(CallsOf(p))]
           IN IsDdlSubmit(c) /\ c.batch = 3 /\ c.res = "ok"
                /\ Len(c.stmts) = 1
        /\ Cardinality(DdlOutstanding) = 1

\* C3: a DDL batch that fails or times out is the last call of the run (no
\* later batch, no resubmission, no sample operation); no batch is ever
\* submitted twice; the statements of the batches that completed before it
\* stay in the catalog; and the run ends as DdlBatchFailed with exit code 1,
\* without printing that the schema or the set-up completed.
C3_DdlFailureAborts ==
    \A p \in Procs :
        /\ \A j \in Pos(p), h \in Pos(p) :
             (IsDdlSubmit(CallsOf(p)[j]) /\ IsDdlSubmit(CallsOf(p)[h])
                /\ CallsOf(p)[j].batch = CallsOf(p)[h].batch) => j = h
        /\ \A j \in Pos(p) :
             DdlFailed(CallsOf(p)[j]) =>
               /\ j = Len(CallsOf(p))
               /\ Exited(p)
               /\ run[p].exitCode = 1
               /\ run[p].outcome = "DdlBatchFailed"
               /\ run[p].printed \cap {"schema_completed", "setup_completed"} = {}
               /\ \A h \in 1..(j - 1) :
                    (IsDdlWait(CallsOf(p)[h]) /\ CallsOf(p)[h].res = "ok") =>
                      \A k \in 1..Len(CallsOf(p)[h].stmts) :
                          CallsOf(p)[h].stmts[k] \in catalog

\* The second batch failed after the first was applied: the five tables are
\* there, not all of the indexes.
C3_Witness ==
    \E p \in Procs :
        /\ Exited(p)
        /\ Len(CallsOf(p)) > 0
        /\ LET c == CallsOf(p)[Len(CallsOf(p))]
           IN IsDdlWait(c) /\ c.batch = 2 /\ c.res = "error"
        /\ Cardinality(TableNames(catalog)) = 5
        /\ catalog # AllObjects
        /\ Cardinality(catalog) > 5

\* A run of spanner-schema.py that found the database at its start.
SchemaRun(p) == run[p].script = "schema"

StartedEmpty(p) ==
    /\ run[p].start.db
    /\ run[p].start.catalog = {}
    /\ run[p].start.users = {}
    /\ run[p].start.tokens = {}

StartedProvisioned(p) ==
    /\ run[p].start.db
    /\ run[p].start.catalog = AllObjects

DdlWaits(p) == {j \in Pos(p) : IsDdlWait(CallsOf(p)[j])}

\* The number of chunks of n statements at chunk size cs.
Batches(n, cs) == (n + cs - 1) \div cs

\* C4: for every chunk size from 1 up, a run of the set-up that starts on an
\* existing empty database never has a statement rejected by the service
\* (no index reaches it before its table), and once all its batches have
\* completed (no failure from outside) the catalog holds exactly the five
\* tables and the six indexes, reached in ceil(11 / chunk size) batches.
C4_SameCatalogAnyChunk ==
    \A p \in Procs :
        (SchemaRun(p) /\ StartedEmpty(p)) =>
           /\ \A j \in DdlWaits(p) : CallsOf(p)[j].res # "rejected"
           /\ "schema_completed" \in run[p].printed =>
                /\ catalog = AllObjects
                /\ Cardinality(TableNames(catalog)) = 5
                /\ Cardinality(catalog) = 11
                /\ Cardinality(DdlWaits(p)) = Batches(11, chunk_size)
                /\ \A j \in DdlWaits(p) : CallsOf(p)[j].res = "ok"

\* Chunk size 3: the second batch holds two tables and the first index.
C4_Witness ==
    \E p \in Procs :
        /\ SchemaRun(p) /\ StartedEmpty(p)
        /\ chunk_size = 3
        /\ "schema_completed" \in run[p].printed
        /\ Cardinality(DdlWaits(p)) = 4
        /\ catalog = AllObjects

\* C5: a run of the set-up that starts on a fully provisioned database makes
\* no create_database call (the creation step prints that it skips and the
\* run goes on to the DDL); submits batch 1 only, whose wait never succeeds;
\* then ends as DdlBatchFailed with exit code 1 without printing that the
\* set-up completed; and the catalog stays as the run found it.
C5_SecondRunFailsFirstBatch ==
    \A p \in Procs :
        (SchemaRun(p) /\ StartedProvisioned(p)) =>
           /\ catalog = run[p].start.catalog
           /\ \A j \in Pos(p) :
                LET c == CallsOf(p)[j]
                IN /\ c.op # "create_database"
                   /\ c.op # "run_in_transaction"
                   /\ (c.op = "database.exists" /\ c.arg = "create"
                         /\ c.res = "true") =>
                        /\ "skipping_creation" \in run[p].printed
                        /\ j = Len(CallsOf(p)) =>
                             run[p].pc = "update_database_ddl"
                   /\ (IsDdlSubmit(c) \/ IsDdlWait(c)) => c.batch = 1
                   /\ IsDdlWait(c) => c.res \in {"rejected", "timeout"}
                   /\ (IsDdlWait(c) \/ (IsDdlSubmit(c) /\ c.res = "raise")) =>
                        /\ Exited(p)
                        /\ run[p].exitCode = 1
                        /\ run[p].outcome = "DdlBatchFailed"
                        /\ "setup_completed" \notin run[p].printed
                        /\ "schema_completed" \notin run[p].printed

C5_Witness ==
    \E p \in Procs :
        /\ SchemaRun(p) /\ StartedProvisioned(p)
        /\ Exited(p)
        /\ Len(CallsOf(p)) > 0
        /\ LET c == CallsOf(p)[Len(CallsOf(p))]
           IN IsDdlWait(c) /\ c.res = "rejected" /\ c.batch = 1
        /\ catalog = AllObjects

IsCreateCheck(c) == c.op = "database.exists" /\ c.arg = "create"

IsCreateCall(c) == c.op = "create_database"

IsCreateWait(c) == c.op = "operation.result" /\ c.arg = "create"

\* C6: a create_database call is made only directly after the existence
\* check of the creation step returned false, at most once in a run, with
\* the POSTGRESQL dialect, and when it returned the operation the run waits
\* for its result; when the call raises or the wait fails or times out the
\* run makes no further call (no DDL batch, no sample operation) and exits
\* with code 1 as CreateFailed; when the check returned true no
\* create_database call is made in the run.
C6_CreateOnceOrFail ==
    \A p \in Procs : \A j \in Pos(p) :
        LET c == CallsOf(p)[j]
            last == j = Len(CallsOf(p))
        IN /\ (IsCreateCheck(c) /\ c.res = "false") =>
                IF last THEN run[p].pc = "create_database"
                ELSE IsCreateCall(CallsOf(p)[j + 1])
           /\ (IsCreateCheck(c) /\ c.res = "true") =>
                \A h \in Pos(p) : ~IsCreateCall(CallsOf(p)[h])
           /\ IsCreateCall(c) =>
                /\ c.arg = "POSTGRESQL"
                /\ j > 1
                /\ IsCreateCheck(CallsOf(p)[j - 1])
                /\ CallsOf(p)[j - 1].res = "false"
                /\ \A h \in Pos(p) : IsCreateCall(CallsOf(p)[h]) => h = j
                /\ c.res = "ok" =>
                     IF last
                     THEN /\ run[p].pc = "create_result"
                          /\ [proc |-> p, kind |-> "create", batch |-> 0]
                                \in pending
                     ELSE IsCreateWait(CallsOf(p)[j + 1])
           /\ ((IsCreateCall(c) /\ c.res = "raise")
                 \/ (IsCreateWait(c) /\ c.res # "ok")) =>
                /\ last
                /\ Exited(p)
                /\ run[p].exitCode = 1
                /\ run[p].outcome = "CreateFailed"
                /\ "setup_completed" \notin run[p].printed

\* The wait for the creation timed out although the database was created.
C6_Witness ==
    \E p \in Procs :
        /\ Exited(p)
        /\ Len(CallsOf(p)) > 1
        /\ IsCreateWait(CallsOf(p)[Len(CallsOf(p))])
        /\ CallsOf(p)[Len(CallsOf(p))].res = "timeout"
        /\ IsCreateCall(CallsOf(p)[Len(CallsOf(p)) - 1])
        /\ ~run[p].start.db
        /\ dbExists

\* C7, as claimed: a process exits with code 0 only when no phase failed,
\* and a run in which a phase failed does not print that the set-up
\* completed.  main of spanner-schema.py only prints a warning when
\* test_litellm_operations returned False, so this does not hold.
C7_ExitZeroOnlyOnSuccess ==
    \A p \in Procs :
        Exited(p) =>
           /\ run[p].exitCode = 0 => run[p].outcome = ""
           /\ run[p].outcome # "" =>
                /\ run[p].exitCode = 1
                /\ "setup_completed" \notin run[p].printed

\* The sample rows are there.
UserRowPresent == TestUser \in userRows

TokenRowPresent == \E t \in tokenRows : t.token = TestToken.token

ExpectedTables ==
    << "litellm_proxymodeltable", "litellm_teamtable", "litellm_usagetable",
       "litellm_usertable", "litellm_verificationtoken" >>

\* C8: once test_litellm_operations has returned True neither sample row is
\* in its table; and a run that started on an existing empty database and
\* got that far has listed the five table names, in name order, and leaves
\* both tables without any row.
C8_NoResidualRows ==
    \A p \in Procs :
        (SchemaRun(p) /\ run[p].opsOk) =>
           /\ run[p].pc \in {"main_finish", "exited"}
           /\ ~UserRowPresent
           /\ ~TokenRowPresent
           /\ \A t \in tokenRows : t.user_id # TestUser
           /\ StartedEmpty(p) =>
                /\ userRows = {}
                /\ tokenRows = {}
                /\ run[p].listed = ExpectedTables
                /\ catalog = AllObjects

C8_Witness ==
    \E p \in Procs :
        /\ SchemaRun(p) /\ StartedEmpty(p)
        /\ Exited(p)
        /\ run[p].opsOk
        /\ run[p].exitCode = 0
        /\ \E j \in Pos(p) : CallsOf(p)[j].arg = "insert_test_data"
                               /\ CallsOf(p)[j].res = "committed"

IsSampleStep(c) ==
    \/ c.op = "run_in_transaction"
    \/ c.op = "execute_sql" /\ c.arg = "sample queries"

\* C9: a failing step of test_litellm_operations (a transaction that did not
\* return, a read-back that raised) is the last call of the run and the
\* runner returns False; and in every reachable state the user row and the
\* token row are both present or both absent.
C9_BothRowsOrNone ==
    /\ UserRowPresent <=> TokenRowPresent
    /\ \A p \in Procs : \A j \in Pos(p) :
         (IsSampleStep(CallsOf(p)[j])
            /\ CallsOf(p)[j].res \notin {"ok", "committed"}) =>
              /\ j = Len(CallsOf(p))
              /\ run[p].opsOk = FALSE
              /\ run[p].outcome = "SampleOperationFailed"
              /\ run[p].pc \in {"main_finish", "exited"}
    /\ \A p \in Procs :
         run[p].outcome = "SampleOperationFailed" =>
            /\ Len(CallsOf(p)) > 0
            /\ IsSampleStep(CallsOf(p)[Len(CallsOf(p))])
            /\ CallsOf(p)[Len(CallsOf(p))].res \notin {"ok", "committed"}

\* The clean-up was rolled back: both rows are left behind.
C9_Witness ==
    \E p \in Procs :
        /\ run[p].outcome = "SampleOperationFailed"
        /\ CallsOf(p)[Len(CallsOf(p))].arg = "cleanup_test_data"
        /\ CallsOf(p)[Len(CallsOf(p))].res = "aborted"
        /\ UserRowPresent /\ TokenRowPresent

IsProbeCheck(c) == c.op = "database.exists" /\ c.arg = "probe"

IsProbeAgain(c) == c.op = "database.exists" /\ c.arg = "probe again"

IsSelect1(c) == c.op = "execute_sql" /\ c.arg = "SELECT 1"

\* C10, as claimed: in a run whose probe found the instance and then had
\* database.exists() return false, the probe does not pass and no liveness
\* query is made.
C10_DatabaseMissingIsFailure ==
    \A p \in Procs :
        (\E j \in Pos(p) : IsProbeCheck(CallsOf(p)[j])
                             /\ CallsOf(p)[j].res = "false") =>
           /\ run[p].success = FALSE
           /\ "PASSED" \notin run[p].printed
           /\ \A h \in Pos(p) : ~IsSelect1(CallsOf(p)[h])

\* C10, amended: after database.exists() returned false, spanner-connect.py
\* makes no further call and ends as DatabaseMissing with exit code 1;
\* spanner-schema.py prints that the database will be created and asks
\* database.exists() again: it makes the liveness query only when that call
\* returned true, and when it returned false the probe passes (success, the
\* PASSED line) without a liveness query.
C10_DatabaseMissingPerScript ==
    \A p \in Procs : \A j \in Pos(p) :
        LET c == CallsOf(p)[j]
            last == j = Len(CallsOf(p))
        IN (IsProbeCheck(c) /\ c.res = "false") =>
             IF run[p].script = "connect"
             THEN /\ last
                  /\ Exited(p)
                  /\ run[p].exitCode = 1
                  /\ run[p].success = FALSE
                  /\ run[p].outcome = "DatabaseMissing"
             ELSE /\ "will_be_created" \in run[p].printed
                  /\ IF last THEN run[p].pc = "database_exists_again"
                     ELSE /\ IsProbeAgain(CallsOf(p)[j + 1])
                          /\ CallsOf(p)[j + 1].res = "false" =>
                               /\ run[p].success
                               /\ "PASSED" \in run[p].printed
                               /\ run[p].outcome \notin
                                    {"DatabaseMissing", "Unreachable",
                                     "LivenessCheckFailed"}
                               /\ \A h \in Pos(p) : ~IsSelect1(CallsOf(p)[h])
                          /\ (\E h \in Pos(p) : IsSelect1(CallsOf(p)[h])) =>
                               CallsOf(p)[j + 1].res = "true"

\* spanner-schema.py on an instance without the database: both checks say
\* false, the probe passes and main is at the prompt.
C10_Witness ==
    \E p \in Procs :
        /\ SchemaRun(p)
        /\ instanceExists /\ ~dbExists
        /\ run[p].pc = "prompt"
        /\ run[p].success
        /\ Len(CallsOf(p)) = 4
        /\ IsProbeCheck(CallsOf(p)[3]) /\ CallsOf(p)[3].res = "false"
        /\ IsProbeAgain(CallsOf(p)[4]) /\ CallsOf(p)[4].res = "false"

\* The probe of p has just returned from a liveness query that was answered:
\* results still holds the rows.
ProbeAnswered(p) ==
    LET n == Len(CallsOf(p))
    IN /\ run[p].script \in {"connect", "schema"}
       /\ run[p].pc \in {"prompt", "exited"}
       /\ run[p].setup_mode = << >>
       /\ "setup_skipped" \notin run[p].printed
       /\ n > 0
       /\ IsSelect1(CallsOf(p)[n])
       /\ CallsOf(p)[n].res = "ok"

\* C11, as claimed: a probe that found instance and database passes (success,
\* the PASSED line) only when its liveness query got back exactly one row, of
\* value 1; on zero rows, on more than one row and on another value the probe
\* ends as LivenessCheckFailed.
C11_PassOnlyOnOneRowOne ==
    \A p \in Procs :
        ProbeAnswered(p) =>
             IF run[p].results = << 1 >>
             THEN run[p].success /\ "PASSED" \in run[p].printed
             ELSE /\ ~run[p].success
                  /\ "PASSED" \notin run[p].printed
                  /\ run[p].outcome = "LivenessCheckFailed"

IsTablesQuery(c) ==
    c.op = "execute_sql" /\ c.arg = "information_schema.tables"

IsDirectTables(c) ==
    c.op = "execute_sql" /\ c.arg = "information_schema.tables public"

\* C12, as claimed: the table listing changes nothing and gives exactly the
\* tables whose name starts with the eight characters litellm_, in name
\* order: the five tables when the database holds just these, and the empty
\* list, with no error and no failed run, when it holds no such table.
C12_ListsLiteralPrefix ==
    \A p \in Procs : \A j \in Pos(p) :
        LET c == CallsOf(p)[j]
        IN /\ (IsTablesQuery(c) /\ c.res = "ok") =>
                /\ run[p].listed = starts_with_query(catalog)
                /\ TableNames(catalog) = known_tables =>
                       run[p].listed = ExpectedTables
                /\ run[p].pc = "insert_test_data" =>
                     /\ catalog = run[p].start.catalog \cup AllObjects
                     /\ userRows = run[p].start.users
                     /\ tokenRows = run[p].start.tokens
           /\ (IsDirectTables(c) /\ c.res = "ok") =>
                /\ run[p].listed = starts_with_query(catalog)
                /\ << dbExists, catalog, userRows, tokenRows >>
                     = << run[p].start.db, run[p].start.catalog,
                          run[p].start.users, run[p].start.tokens >>
                /\ starts_with_query(catalog) = << >> =>
                     /\ "no_litellm_tables" \in run[p].printed
                     /\ run[p].outcome = ""
                     /\ run[p].exitCode \in {-1, 0}

\* The kinds of the statements of a batch, in order.
Kinds(stmts) == [k \in 1..Len(stmts) |-> stmts[k].kind]

\* C13: whenever a batch is submitted, each CREATE INDEX in it has the CREATE
\* TABLE of its table either earlier in the same batch or in a batch whose
\* wait returned successfully before this submission; and at chunk size 5
\* the batches are three: five table statements, five index statements, one
\* index statement.
C13_IndexAfterItsTable ==
    \A p \in Procs :
        /\ \A j \in Pos(p) :
             LET c == CallsOf(p)[j]
             IN IsDdlSubmit(c) =>
                  /\ \A k \in 1..Len(c.stmts) :
                       c.stmts[k].kind = "INDEX" =>
                         \/ \E h \in 1..(k - 1) :
                              c.stmts[h] = Table(c.stmts[k].on)
                         \/ \E h \in 1..(j - 1) :
                              /\ IsDdlWait(CallsOf(p)[h])
                              /\ CallsOf(p)[h].res = "ok"
                              /\ \E g \in 1..Len(CallsOf(p)[h].stmts) :
                                   CallsOf(p)[h].stmts[g]
                                     = Table(c.stmts[k].on)
                  /\ c.batch \in {1, 2, 3}
                  /\ c.batch = 1 =>
                       Kinds(c.stmts)
                         = << "TABLE", "TABLE", "TABLE", "TABLE", "TABLE" >>
                  /\ c.batch = 2 =>
                       Kinds(c.stmts)
                         = << "INDEX", "INDEX", "INDEX", "INDEX", "INDEX" >>
                  /\ c.batch = 3 => Kinds(c.stmts) = << "INDEX" >>
        /\ "schema_completed" \in run[p].printed =>
             Cardinality({j \in Pos(p) : IsDdlSubmit(CallsOf(p)[j])}) = 3

\* All three batches went through: the index batches were submitted after
\* the wait for the table batch returned.
C13_Witness ==
    \E p \in Procs :
        /\ run[p].pc = "tables_query"
        /\ "schema_completed" \in run[p].printed
        /\ \E j \in Pos(p) :
             /\ IsDdlSubmit(CallsOf(p)[j])
             /\ CallsOf(p)[j].batch = 2
             /\ CallsOf(p)[j].stmts[1].kind = "INDEX"
             /\ IsDdlWait(CallsOf(p)[j - 1])
             /\ CallsOf(p)[j - 1].res = "ok"
        /\ catalog = run[p].start.catalog \cup AllObjects

\* A call that asks the service to change something: create the database,
\* apply DDL, or run a read-write transaction.
IsMutation(c) ==
    c.op \in {"create_database", "update_database_ddl", "run_in_transaction"}

\* C14: a run of spanner-schema.py makes a create-database call, submits a
\* DDL batch or runs a sample transaction only when the answer at the prompt,
\* lower-cased and trimmed, was 'y'; on any other answer it prints that the
\* set-up is skipped and ends with none of these calls made and with the
\* database, its catalog and its rows as they were when the run started.
C14_PromptGatesMutation ==
    /\ \A a \in Answers :
         Strip(Lower(a)) = << "y" >>
           <=> a \in { << "y" >>, << "Y" >>, << " ", "y", " " >> }
    /\ \A p \in Procs :
         SchemaRun(p) =>
           /\ (\E j \in Pos(p) : IsMutation(CallsOf(p)[j])) =>
                run[p].setup_mode = << "y" >>
           /\ run[p].setup_mode # << "y" >> =>
                /\ run[p].pc \notin
                     {"create_check", "create_database", "create_result",
                      "update_database_ddl", "operation_result",
                      "tables_query", "insert_test_data", "sample_queries",
                      "cleanup_test_data", "main_finish"}
                /\ << dbExists, catalog, userRows, tokenRows >>
                     = << run[p].start.db, run[p].start.catalog,
                          run[p].start.users, run[p].start.tokens >>
           /\ "setup_skipped" \in run[p].printed =>
                /\ run[p].setup_mode # << "y" >>
                /\ Exited(p)
                /\ run[p].exitCode = 0

\* The probe passed on an existing database, the answer was "yes" (not 'y'),
\* and the run has ended with the set-up skipped.
C14_Witness ==
    \E p \in Procs :
        /\ SchemaRun(p)
        /\ Exited(p)
        /\ "PASSED" \in run[p].printed
        /\ "setup_skipped" \in run[p].printed
        /\ run[p].setup_mode = << "y", "e", "s" >>
        /\ dbExists
        /\ \A j \in Pos(p) : ~IsMutation(CallsOf(p)[j])

\* The run of p saw the database absent in create_database_if_not_exists and
\* asked for its creation.
SawAbsentAndCreated(p) ==
    \E j \in Pos(p) :
        /\ j > 1
        /\ IsCreateCall(CallsOf(p)[j])
        /\ IsCreateCheck(CallsOf(p)[j - 1])
        /\ CallsOf(p)[j - 1].res = "false"

\* The run of p submitted DDL batch b.
Submitted(p, b) ==
    \E j \in Pos(p) : IsDdlSubmit(CallsOf(p)[j]) /\ CallsOf(p)[j].batch = b

\* C15: of two overlapping executions that both saw the database absent and
\* both called create_database, once both have ended at least one has ended
\* as CreateFailed; of two that both submitted the same DDL batch, once both
\* have ended at least one has ended as CreateFailed, DdlBatchFailed or
\* SampleOperationFailed.  (That two executions do get there is the witness:
\* nothing in the scripts keeps the check and the call together.)
C15_OverlappingRunsFail ==
    \A p \in Procs : \A q \in Procs \ {p} :
        (Exited(p) /\ Exited(q)) =>
          /\ (SawAbsentAndCreated(p) /\ SawAbsentAndCreated(q)) =>
               \E x \in {p, q} :
                   run[x].outcome = "CreateFailed" /\ run[x].exitCode = 1
          /\ (\E b \in 1..Len(get_litellm_spanner_ddl) :
                 Submitted(p, b) /\ Submitted(q, b)) =>
               \E x \in {p, q} :
                   run[x].outcome \in {"CreateFailed", "DdlBatchFailed",
                                       "SampleOperationFailed"}

\* Both executions found the database missing and both called
\* create_database; one creation went through and that execution completed
\* the set-up, the other ended as CreateFailed.
C15_Witness ==
    \E p \in Procs : \E q \in Procs \ {p} :
        /\ concurrent
        /\ Exited(p) /\ Exited(q)
        /\ SawAbsentAndCreated(p) /\ SawAbsentAndCreated(q)
        /\ ~run[p].start.db /\ ~run[q].start.db
        /\ "setup_completed" \in run[p].printed
        /\ run[q].outcome = "CreateFailed"
        /\ run[q].exitCode = 1

\* test_litellm_operations of p was entered and has returned.
RunnerReturned(p) ==
    /\ SchemaRun(p)
    /\ run[p].pc \in {"main_finish", "exited"}
    /\ \E j \in Pos(p) :
         CallsOf(p)[j].op = "run_in_transaction"
           /\ CallsOf(p)[j].arg = "insert_test_data"

\* C16, as claimed: whatever the two tables held when
\* test_litellm_operations was entered, once it has returned, True or False,
\* every user row but the one keyed test-user-123 and every token row but
\* the one keyed sk-test-token-123 is still there.
C16_OtherRowsUntouched ==
    \A p \in Procs :
        RunnerReturned(p) =>
          /\ (run[p].before.users \ {TestUser}) \subseteq userRows
          /\ {t \in run[p].before.tokens : t.token # TestToken.token}
               \subseteq tokenRows

=============================================================================
